---- MODULE Spec2Model ----
(***************************************************************************)
(* A model of the in-memory todo repository of                             *)
(* src/src/examples/01-todo-app.ts: the class TodoRepository, its Map of   *)
(* records, its identifier counter and the clock its timestamps are read   *)
(* from, and the class TodoService on top of it; of the ApiClient of       *)
(* src/src/examples/02-api-client.ts; of the classes BankAccount,          *)
(* DatabaseConnection and GenericRepository of src/unnamed/part_001; of    *)
(* the decorators retry and memoize of src/src/advanced/01-decorators.ts;  *)
(* and of the todo list of src/ch3/app.ts.                                 *)
(*                                                                         *)
(* A JavaScript object is modelled as a function from its property names   *)
(* to its values, so that an absent optional property (tags) is a name     *)
(* that is not in the DOMAIN, and object spread is function override.      *)
(* A Map is modelled as the sequence of its entries in insertion order.    *)
(***************************************************************************)
EXTENDS Integers, Sequences, FiniteSets, TLC

VARIABLES
    todos,      \* TodoRepository.todos: the Map's entries, in insertion order
    currentId,  \* TodoRepository.currentId
    clock,      \* the latest reading of the system clock (new Date())
    call,       \* the most recent call on the repository: its name and arguments
    ret,        \* the value that call returned
    issued,     \* history: the identifiers create has returned, in call order
    svc,        \* the most recent call on the TodoService, and what it returned
    todos2,     \* a second TodoRepository instance: its todos
    currentId2, \* a second TodoRepository instance: its currentId
    issued2,    \* history: the identifiers create of the second instance returned
    heap,       \* the Todo objects allocated so far, by address
    refs,       \* the address of the object held by each entry of todos
    held,       \* what the caller kept of the result of a call
    api,        \* the ApiClient request in progress
    connection, \* DatabaseConnection: the static instance and the calls made
    account,    \* one BankAccount
    generic,    \* one GenericRepository
    retrying,   \* one call of a method wrapped by retry
    memo,       \* a method wrapped by memoize: its cache and the calls made
    todoItems   \* the todoItems array of ch3/app.ts

\* the state of one TodoRepository and of the calls on it
repoVars == <<todos, currentId, clock, call, ret, issued>>

\* the state of a second TodoRepository
secondVars == <<todos2, currentId2, issued2>>

\* the objects behind the records, and the caller's hold on them
aliasVars == <<heap, refs, held>>

\* the state of the todo application and of the API client
appVars == <<todos, currentId, clock, call, ret, issued, svc,
             todos2, currentId2, issued2, heap, refs, held, api>>

\* the state of the smaller examples
exampleVars == <<connection, account, generic, retrying, memo, todoItems>>

vars == <<todos, currentId, clock, call, ret, issued, svc,
          todos2, currentId2, issued2, heap, refs, held, api,
          connection, account, generic, retrying, memo, todoItems>>

----------------------------------------------------------------------------
(* Bounds of the model *)

\* create is called at most MaxCreates times
MaxCreates == 2

\* the clock's readings range over 0..MaxClock
MaxClock == 1

\* create is called at most MaxOrderCreates times in OrderSpec
MaxOrderCreates == 3

\* at most MaxObjects Todo objects are allocated in AliasSpec
MaxObjects == 3

\* the caller's array grows to at most MaxHeldLength elements in AliasSpec
MaxHeldLength == 2

\* getInstance and connect are each called at most MaxConnectionCalls times
MaxConnectionCalls == 2

\* deposits stop when a finite balance would exceed MaxBalance
MaxBalance == 3

\* retry(times) is applied with times in 0..MaxTimes
MaxTimes == 4

\* fibonacci is called from outside at most MaxMemoCalls times
MaxMemoCalls == 2

\* fibonacci is called from outside with n in -1..MaxArgument
MaxArgument == 3

\* addTodoItem is called at most MaxAdds times
MaxAdds == 4

----------------------------------------------------------------------------
(* Values *)

\* the value undefined
Undefined == [undefined |-> TRUE]

\* enum Priority
Priority == {"LOW", "MEDIUM", "HIGH", "URGENT"}

\* object spread { ...a, ...b }: the properties of b override those of a
Spread(a, b) == b @@ a

\* an optional property: absent, or present with a value
Absent == <<"absent">>

Present(v) == <<"present", v>>

\* the object with at most the one property name, as the choice says
OptField(name, choice) == IF choice = Absent THEN <<>> ELSE (name :> choice[2])

----------------------------------------------------------------------------
(* Map<string, Todo>, as the sequence of its entries in insertion order *)

MapKeys(m) == {m[i].key : i \in 1..Len(m)}

MapHas(m, k) == k \in MapKeys(m)

MapIndex(m, k) == CHOOSE i \in 1..Len(m) : m[i].key = k

\* Map.prototype.get
MapGet(m, k) == IF MapHas(m, k) THEN m[MapIndex(m, k)].value ELSE Undefined

\* Map.prototype.set, were an existing key deleted and set again, which
\* moves it last
MapSetMovesLast(m, k, v) ==
    Append(SelectSeq(m, LAMBDA e : e.key # k), [key |-> k, value |-> v])

\* Map.prototype.set: an existing key keeps its position, a new key goes last
MapSet(m, k, v) ==
    IF MapHas(m, k)
    THEN [m EXCEPT ![MapIndex(m, k)] = [key |-> k, value |-> v]]
    ELSE Append(m, [key |-> k, value |-> v])

\* Map.prototype.delete, were its result dropped and true returned
MapDeleteAlwaysTrue(m, k) ==
    [map |-> SelectSeq(m, LAMBDA e : e.key # k), result |-> TRUE]

\* Map.prototype.delete, were the key moved out by swapping the last entry
\* into its place
MapDeleteSwapLast(m, k) ==
    IF ~MapHas(m, k)
    THEN [map |-> m, result |-> FALSE]
    ELSE [map |-> SubSeq([m EXCEPT ![MapIndex(m, k)] = m[Len(m)]], 1, Len(m) - 1),
          result |-> TRUE]

\* Map.prototype.delete: the map without the key, and whether it was there
MapDelete(m, k) ==
    [map |-> SelectSeq(m, LAMBDA e : e.key # k), result |-> MapHas(m, k)]

\* Map.prototype.values, were the list reversed (newest first)
MapValuesReversed(m) == [i \in 1..Len(m) |-> m[Len(m) + 1 - i].value]

\* Map.prototype.values, as Array.from lists them
MapValues(m) == [i \in 1..Len(m) |-> m[i].value]

----------------------------------------------------------------------------
(* class TodoRepository *)

\* generateId, were it to number the records by the size of the Map
GenerateIdFromSize(cur) ==
    [currentId |-> Len(todos) + 1, id |-> "todo-" \o ToString(Len(todos) + 1)]

\* generateId: pre-increments the counter and formats it into the identifier
GenerateId(cur) == [currentId |-> cur + 1, id |-> "todo-" \o ToString(cur + 1)]

\* the object literal of create, were the two readings of the clock stored
\* the other way round
CreateTodoSwapped(id, input, t1, t2) ==
    Spread(Spread([id |-> id], input), [createdAt |-> t2, updatedAt |-> t1])

\* the object literal of create: the id, the input spread over it, then the
\* two timestamps, each from its own new Date()
CreateTodo(id, input, t1, t2) ==
    Spread(Spread([id |-> id], input), [createdAt |-> t1, updatedAt |-> t2])

\* the object literal of update, were both timestamps refreshed
UpdateTodoTouchesCreatedAt(todo, update, t) ==
    Spread(Spread(todo, update), [createdAt |-> t, updatedAt |-> t])

\* the object literal of update, were the stored record spread over the patch
UpdateTodoPatchFirst(todo, update, t) ==
    Spread(Spread(update, todo), [updatedAt |-> t])

\* the object literal of update: the stored record, the patch spread over it,
\* then updatedAt from new Date()
UpdateTodo(todo, update, t) == Spread(Spread(todo, update), [updatedAt |-> t])

\* todo.tags?.includes(tag), were a record without tags taken to match
TagsIncludeOrUntagged(todo, tag) ==
    \/ "tags" \notin DOMAIN todo
    \/ \E j \in 1..Len(todo.tags) : todo.tags[j] = tag

\* todo.tags?.includes(tag)
TagsInclude(todo, tag) ==
    /\ "tags" \in DOMAIN todo
    /\ \E j \in 1..Len(todo.tags) : todo.tags[j] = tag

\* the three filter stages of findAll, applied in the order of the code
FilterCompleted(list, filter) ==
    IF "completed" \in DOMAIN filter
    THEN SelectSeq(list, LAMBDA todo : todo.completed = filter.completed)
    ELSE list

\* the priority stage, were it to filter the whole collection again instead
\* of the list narrowed so far
FilterPriorityFromAll(list, filter) ==
    IF "priority" \in DOMAIN filter
    THEN SelectSeq(MapValues(todos), LAMBDA todo : todo.priority = filter.priority)
    ELSE list

\* filter.priority is a member of the enum when present, hence truthy
FilterPriority(list, filter) ==
    IF "priority" \in DOMAIN filter
    THEN SelectSeq(list, LAMBDA todo : todo.priority = filter.priority)
    ELSE list

\* the tags stage, were its guard filter.tags.length > 1
FilterTagsGuardOffByOne(list, filter) ==
    IF "tags" \in DOMAIN filter /\ Len(filter.tags) > 1
    THEN SelectSeq(list, LAMBDA todo :
             \E i \in 1..Len(filter.tags) : TagsInclude(todo, filter.tags[i]))
    ELSE list

\* filter.tags && filter.tags.length > 0, then some(...) over the filter's tags
FilterTags(list, filter) ==
    IF "tags" \in DOMAIN filter /\ Len(filter.tags) > 0
    THEN SelectSeq(list, LAMBDA todo :
             \E i \in 1..Len(filter.tags) : TagsInclude(todo, filter.tags[i]))
    ELSE list

\* findAll(filter?): filter is Undefined when the argument is left out
FindAllIn(m, filter) ==
    IF filter = Undefined
    THEN MapValues(m)
    ELSE FilterTags(FilterPriority(FilterCompleted(MapValues(m), filter), filter), filter)

----------------------------------------------------------------------------
(* The arguments the calls are made with *)

\* TodoInput objects: every property but id, createdAt and updatedAt
TodoInputsOver(titles, flags, priorities, tagChoices) ==
    { [title |-> t, description |-> "d", completed |-> c, priority |-> p]
          @@ OptField("tags", g) :
      t \in titles, c \in flags, p \in priorities, g \in tagChoices }

\* TodoUpdate objects: any subset of the properties of a TodoInput
TodoUpdatesOver(titleChoices, flagChoices, priorityChoices, tagChoices) ==
    { OptField("title", t) @@ OptField("completed", c)
          @@ OptField("priority", p) @@ OptField("tags", g) :
      t \in titleChoices, c \in flagChoices, p \in priorityChoices, g \in tagChoices }

\* TodoFilter objects, and Undefined for a call without a filter
TodoFiltersOver(flagChoices, priorityChoices, tagChoices) ==
    { OptField("completed", c) @@ OptField("priority", p) @@ OptField("tags", g) :
      c \in flagChoices, p \in priorityChoices, g \in tagChoices } \cup {Undefined}

\* identifiers passed to findById, update and delete: those create can return
\* and one it never returns
IdInputsUpTo(cap) == {"todo-" \o ToString(k) : k \in 1..(cap + 1)}

IdInputs == IdInputsUpTo(MaxCreates)

\* The arguments of Spec: few shapes of record, so that the timestamps and
\* the counter can range
TodoInputs ==
    TodoInputsOver({"a"}, {FALSE}, {"LOW"}, {Absent})

TodoUpdates ==
    { <<>>, [completed |-> TRUE], [title |-> "b", tags |-> <<"y">>] }

TodoFilters ==
    { Undefined, [completed |-> TRUE], [tags |-> <<"x">>] }

\* The arguments of FilterSpec: every combination of the properties findAll
\* looks at
FilterTodoInputs ==
    TodoInputsOver({"a"}, BOOLEAN, {"LOW", "HIGH"},
                   {Absent, Present(<<>>), Present(<<"x", "y">>)})

FilterTodoUpdates ==
    { [completed |-> TRUE], [completed |-> FALSE] }

FilterTodoFilters ==
    TodoFiltersOver({Absent, Present(TRUE), Present(FALSE)},
                    {Absent, Present("HIGH")},
                    {Absent, Present(<<>>), Present(<<"x">>), Present(<<"z">>),
                     Present(<<"z", "y">>)})

\* The arguments of OrderSpec: records that differ in the completed flag only,
\* so that three of them can be stored
OrderTodoInputs == TodoInputsOver({"a"}, BOOLEAN, {"LOW"}, {Absent})

OrderTodoUpdates == { [completed |-> TRUE], [completed |-> FALSE] }

OrderTodoFilters == { Undefined, [completed |-> TRUE], [completed |-> FALSE] }

----------------------------------------------------------------------------
(* The state after construction, and one action per method *)

\* no call on the service yet, or the repository called directly
NoService == [op |-> "none"]

\* the caller holds nothing
NoHold == [kind |-> "none", last |-> "returned"]

\* no request was made on the ApiClient
ApiIdle == [pc |-> "idle"]

\* DatabaseConnection before any call: the static field instance is undefined
NoConnection == [instance |-> Undefined, constructed |-> 0, returned |-> <<>>, log |-> <<>>]

\* no BankAccount constructed yet
NoAccount == [pc |-> "none"]

\* a new GenericRepository: items is an empty Map
EmptyGeneric == [items |-> <<>>, call |-> [op |-> "new"], ret |-> Undefined]

\* no call of the retrying method made yet
NotRetrying == [pc |-> "idle"]

\* the memoized method before any call: an empty cache, no call in progress
EmptyMemo ==
    [cache |-> <<>>, stack |-> <<>>, returned |-> Absent, invoked |-> <<>>,
     completed |-> <<>>, calls |-> 0, call |-> [op |-> "none"], ret |-> Absent]

\* enum Progress
Progress == [InProgress |-> "in-progress", Done |-> "done", Todo |-> "to-do"]

\* const todoItems
InitialTodoItems ==
    << [id |-> 1, title |-> "Learn HTML", status |-> Progress.Done, completedOn |-> "2021-09-11"],
       [id |-> 2, title |-> "Learn TypeScript", status |-> Progress.InProgress],
       [id |-> 3, title |-> "Write the best app in the world", status |-> Progress.Todo] >>

InitAt(t) ==
    /\ todos = <<>>
    /\ currentId = 0
    /\ clock = t
    /\ call = [op |-> "new"]
    /\ ret = Undefined
    /\ issued = <<>>
    /\ svc = NoService
    /\ todos2 = <<>>
    /\ currentId2 = 0
    /\ issued2 = <<>>
    /\ heap = <<>>
    /\ refs = <<>>
    /\ held = NoHold
    /\ api = ApiIdle
    /\ connection = NoConnection
    /\ account = NoAccount
    /\ generic = EmptyGeneric
    /\ retrying = NotRetrying
    /\ memo = EmptyMemo
    /\ todoItems = InitialTodoItems

Init == InitAt(0)

\* create(input): new Date() is read twice, and the clock may advance between
\* the two readings. The model stops calling create after cap calls.
Create(input, cap) ==
    /\ currentId < cap
    /\ \E t1 \in clock..MaxClock : \E t2 \in t1..MaxClock :
         LET g == GenerateId(currentId)
             todo == CreateTodo(g.id, input, t1, t2)
         IN  /\ currentId' = g.currentId
             /\ todos' = MapSet(todos, todo.id, todo)
             /\ clock' = t2
             /\ ret' = todo
             /\ issued' = Append(issued, todo.id)
    /\ call' = [op |-> "create", input |-> input]

\* findById(id)
FindById(id) ==
    /\ ret' = MapGet(todos, id)
    /\ call' = [op |-> "findById", id |-> id]
    /\ UNCHANGED <<todos, currentId, clock, issued>>

\* findAll(filter?)
FindAll(filter) ==
    /\ ret' = FindAllIn(todos, filter)
    /\ call' = [op |-> "findAll", filter |-> filter]
    /\ UNCHANGED <<todos, currentId, clock, issued>>

\* update(id, update), were the early return for a missing record left out:
\* the patch is then spread over nothing and stored under id
UpdateWithoutGuard(id, update) ==
    /\ \E t \in clock..MaxClock :
         LET todo == IF MapHas(todos, id) THEN MapGet(todos, id) ELSE <<>>
             updated == UpdateTodo(todo, update, t)
         IN  /\ todos' = MapSet(todos, id, updated)
             /\ clock' = t
             /\ ret' = updated
    /\ call' = [op |-> "update", id |-> id, update |-> update]
    /\ UNCHANGED <<currentId, issued>>

\* update(id, update): the clock is read only when the record is there
Update(id, update) ==
    /\ IF ~MapHas(todos, id)
       THEN /\ ret' = Undefined
            /\ UNCHANGED <<todos, clock>>
       ELSE \E t \in clock..MaxClock :
              LET updated == UpdateTodo(MapGet(todos, id), update, t)
              IN  /\ todos' = MapSet(todos, id, updated)
                  /\ clock' = t
                  /\ ret' = updated
    /\ call' = [op |-> "update", id |-> id, update |-> update]
    /\ UNCHANGED <<currentId, issued>>

\* delete(id)
Delete(id) ==
    /\ todos' = MapDelete(todos, id).map
    /\ ret' = MapDelete(todos, id).result
    /\ call' = [op |-> "delete", id |-> id]
    /\ UNCHANGED <<currentId, clock, issued>>

\* clear(), were it to reset the counter with the Map
ClearResetsCounter ==
    /\ todos' = <<>>
    /\ currentId' = 0
    /\ ret' = Undefined
    /\ call' = [op |-> "clear"]
    /\ UNCHANGED <<clock, issued>>

\* clear(): the Map is emptied, the counter is left alone
Clear ==
    /\ todos' = <<>>
    /\ ret' = Undefined
    /\ call' = [op |-> "clear"]
    /\ UNCHANGED <<currentId, clock, issued>>

----------------------------------------------------------------------------
(* class TodoService: every method is one call on the repository *)

\* the record of a call on the service: its name, its arguments, its result
ServiceCall(op, args, result) == [op |-> op, args |-> args, ret |-> result]

ServiceCreateTodo(input, cap) ==
    /\ Create(input, cap)
    /\ svc' = ServiceCall("createTodo", <<input>>, ret')

ServiceGetTodo(id) ==
    /\ FindById(id)
    /\ svc' = ServiceCall("getTodo", <<id>>, ret')

ServiceGetAllTodos(filter) ==
    /\ FindAll(filter)
    /\ svc' = ServiceCall("getAllTodos", <<filter>>, ret')

ServiceUpdateTodo(id, update) ==
    /\ Update(id, update)
    /\ svc' = ServiceCall("updateTodo", <<id, update>>, ret')

ServiceDeleteTodo(id) ==
    /\ Delete(id)
    /\ svc' = ServiceCall("deleteTodo", <<id>>, ret')

\* completeTodo, were its patch { completed: false } as in incompleteTodo
ServiceCompleteTodoIncompletes(id) ==
    /\ Update(id, [completed |-> FALSE])
    /\ svc' = ServiceCall("completeTodo", <<id>>, ret')

ServiceCompleteTodo(id) ==
    /\ Update(id, [completed |-> TRUE])
    /\ svc' = ServiceCall("completeTodo", <<id>>, ret')

\* incompleteTodo, were its patch { completed: true } as in completeTodo
ServiceIncompleteTodoCompletes(id) ==
    /\ Update(id, [completed |-> TRUE])
    /\ svc' = ServiceCall("incompleteTodo", <<id>>, ret')

ServiceIncompleteTodo(id) ==
    /\ Update(id, [completed |-> FALSE])
    /\ svc' = ServiceCall("incompleteTodo", <<id>>, ret')

ServiceGetCompletedTodos ==
    /\ FindAll([completed |-> TRUE])
    /\ svc' = ServiceCall("getCompletedTodos", <<>>, ret')

ServiceGetIncompleteTodos ==
    /\ FindAll([completed |-> FALSE])
    /\ svc' = ServiceCall("getIncompleteTodos", <<>>, ret')

ServiceGetTodosByPriority(priority) ==
    /\ FindAll([priority |-> priority])
    /\ svc' = ServiceCall("getTodosByPriority", <<priority>>, ret')

ServiceSearchByTag(tag) ==
    /\ FindAll([tags |-> <<tag>>])
    /\ svc' = ServiceCall("searchByTag", <<tag>>, ret')

ServiceClearAllTodos ==
    /\ Clear
    /\ svc' = ServiceCall("clearAllTodos", <<>>, ret')

\* The arguments of ServiceSpec
ServiceTodoInputs ==
    TodoInputsOver({"a"}, {FALSE}, {"LOW"}, {Present(<<"x">>)})

ServiceTodoUpdates == { <<>>, [completed |-> FALSE] }

ServiceTodoFilters == { Undefined, [priority |-> "HIGH"] }

\* what a call on the service leaves alone
ServiceFrame == UNCHANGED <<secondVars, aliasVars, api, exampleVars>>

\* any call on the service
ServiceNext ==
    \/ \E input \in ServiceTodoInputs :
          ServiceCreateTodo(input, MaxCreates) /\ ServiceFrame
    \/ \E id \in IdInputs : ServiceGetTodo(id) /\ ServiceFrame
    \/ \E filter \in ServiceTodoFilters : ServiceGetAllTodos(filter) /\ ServiceFrame
    \/ \E id \in IdInputs, update \in ServiceTodoUpdates :
          ServiceUpdateTodo(id, update) /\ ServiceFrame
    \/ \E id \in IdInputs : ServiceDeleteTodo(id) /\ ServiceFrame
    \/ \E id \in IdInputs : ServiceCompleteTodo(id) /\ ServiceFrame
    \/ \E id \in IdInputs : ServiceIncompleteTodo(id) /\ ServiceFrame
    \/ ServiceGetCompletedTodos /\ ServiceFrame
    \/ ServiceGetIncompleteTodos /\ ServiceFrame
    \/ \E priority \in {"LOW", "HIGH"} : ServiceGetTodosByPriority(priority) /\ ServiceFrame
    \/ \E tag \in {"x", "y"} : ServiceSearchByTag(tag) /\ ServiceFrame
    \/ ServiceClearAllTodos /\ ServiceFrame

\* The repository reached through the service only, with the clock advancing
ServiceSpec == Init /\ [][ServiceNext]_vars

----------------------------------------------------------------------------
(* The specifications of the repository called directly *)

\* what a call on the repository leaves alone
RepositoryFrame == UNCHANGED <<svc, secondVars, aliasVars, api, exampleVars>>

\* any call on the repository, with arguments from the given sets
NextOver(inputs, updates, filters, cap) ==
    \/ \E input \in inputs : Create(input, cap) /\ RepositoryFrame
    \/ \E id \in IdInputsUpTo(cap) : FindById(id) /\ RepositoryFrame
    \/ \E filter \in filters : FindAll(filter) /\ RepositoryFrame
    \/ \E id \in IdInputsUpTo(cap), update \in updates :
          Update(id, update) /\ RepositoryFrame
    \/ \E id \in IdInputsUpTo(cap) : Delete(id) /\ RepositoryFrame
    \/ Clear /\ RepositoryFrame

Next == NextOver(TodoInputs, TodoUpdates, TodoFilters, MaxCreates)

\* Every call, with the clock advancing: few shapes of record
Spec == Init /\ [][Next]_vars

\* The runs that start at the clock's last reading, so that every timestamp is
\* the same: every shape of record and of filter
FilterInit == InitAt(MaxClock)

FilterNext ==
    NextOver(FilterTodoInputs, FilterTodoUpdates, FilterTodoFilters, MaxCreates)

FilterSpec == FilterInit /\ [][FilterNext]_vars

\* The runs that start at the clock's last reading: more records, that differ
\* in the completed flag only
OrderInit == InitAt(MaxClock)

OrderNext ==
    NextOver(OrderTodoInputs, OrderTodoUpdates, OrderTodoFilters, MaxOrderCreates)

OrderSpec == OrderInit /\ [][OrderNext]_vars

----------------------------------------------------------------------------
(* A second instance of TodoRepository: todos and currentId are instance
   fields, each instance has its own *)

\* what a call on the second instance leaves alone
SecondFrame == UNCHANGED <<todos, currentId, issued, svc, aliasVars, api, exampleVars>>

\* create of the second instance, were currentId a static field, shared by
\* the instances
SecondCreateSharedCounter(input, cap) ==
    /\ currentId < cap
    /\ \E t1 \in clock..MaxClock : \E t2 \in t1..MaxClock :
         LET g == GenerateId(currentId)
             todo == CreateTodo(g.id, input, t1, t2)
         IN  /\ currentId' = g.currentId
             /\ todos2' = MapSet(todos2, todo.id, todo)
             /\ clock' = t2
             /\ ret' = todo
             /\ issued2' = Append(issued2, todo.id)
    /\ call' = [op |-> "create", input |-> input, instance |-> 2]
    /\ UNCHANGED <<todos, currentId2, issued, svc, aliasVars, api, exampleVars>>

\* create(input) of the second instance
SecondCreate(input, cap) ==
    /\ currentId2 < cap
    /\ \E t1 \in clock..MaxClock : \E t2 \in t1..MaxClock :
         LET g == GenerateId(currentId2)
             todo == CreateTodo(g.id, input, t1, t2)
         IN  /\ currentId2' = g.currentId
             /\ todos2' = MapSet(todos2, todo.id, todo)
             /\ clock' = t2
             /\ ret' = todo
             /\ issued2' = Append(issued2, todo.id)
    /\ call' = [op |-> "create", input |-> input, instance |-> 2]
    /\ SecondFrame

\* delete(id) of the second instance
SecondDelete(id) ==
    /\ todos2' = MapDelete(todos2, id).map
    /\ ret' = MapDelete(todos2, id).result
    /\ call' = [op |-> "delete", id |-> id, instance |-> 2]
    /\ UNCHANGED <<currentId2, issued2, clock>>
    /\ SecondFrame

\* clear() of the second instance
SecondClear ==
    /\ todos2' = <<>>
    /\ ret' = Undefined
    /\ call' = [op |-> "clear", instance |-> 2]
    /\ UNCHANGED <<currentId2, issued2, clock>>
    /\ SecondFrame

\* The runs of two instances, from the clock's last reading
InstancesInit == InitAt(MaxClock)

InstancesNext ==
    \/ \E input \in TodoInputs : Create(input, MaxCreates) /\ RepositoryFrame
    \/ \E id \in IdInputs : Update(id, [completed |-> TRUE]) /\ RepositoryFrame
    \/ \E id \in IdInputs : Delete(id) /\ RepositoryFrame
    \/ Clear /\ RepositoryFrame
    \/ \E input \in TodoInputs : SecondCreate(input, MaxCreates)
    \/ \E id \in IdInputs : SecondDelete(id)
    \/ SecondClear

InstancesSpec == InstancesInit /\ [][InstancesNext]_vars

----------------------------------------------------------------------------
(* The objects behind the records. Every object literal of create and update
   allocates an object; the Map holds references, and what a method returns
   is a reference too. heap[a] is the object at address a, refs[i] is the
   address the i-th entry of the Map holds, and todos[i].value is the value
   of that object. *)

\* the caller keeps the object a method returned
HeldObject(from, addr) == [kind |-> "object", from |-> from, addr |-> addr, last |-> "returned"]

\* the caller keeps the array findAll returned: the addresses of its elements
HeldList(addrs) == [kind |-> "list", from |-> "findAll", addrs |-> addrs, last |-> "returned"]

\* the address the Map holds under a key
AddressOf(id) == refs[MapIndex(todos, id)]

\* the Map's view after the object at addr changed in the heap h
ViewOf(h) == [i \in 1..Len(todos) |-> [key |-> todos[i].key, value |-> h[refs[i]]]]

\* what a call through the aliasing view leaves alone
AliasFrame == UNCHANGED <<svc, secondVars, api, exampleVars>>

\* create: the object literal is allocated, set in the Map and returned
AliasCreate(input, cap) ==
    /\ Len(heap) < MaxObjects
    /\ Create(input, cap)
    /\ heap' = Append(heap, ret')
    /\ refs' = Append(refs, Len(heap) + 1)
    /\ held' = HeldObject("create", Len(heap) + 1)
    /\ AliasFrame

\* findById: Map.get returns the stored reference
AliasFindById(id) ==
    /\ FindById(id)
    /\ held' = IF MapHas(todos, id) THEN HeldObject("findById", AddressOf(id)) ELSE NoHold
    /\ UNCHANGED <<heap, refs>>
    /\ AliasFrame

\* findAll: Array.from and filter build a new array of the stored references
AliasFindAll(filter) ==
    /\ FindAll(filter)
    /\ held' = HeldList([i \in 1..Len(ret') |-> AddressOf(ret'[i].id)])
    /\ UNCHANGED <<heap, refs>>
    /\ AliasFrame

\* update: the object literal is allocated, set under the key and returned
AliasUpdate(id, update) ==
    /\ Len(heap) < MaxObjects
    /\ Update(id, update)
    /\ IF MapHas(todos, id)
       THEN /\ heap' = Append(heap, ret')
            /\ refs' = [refs EXCEPT ![MapIndex(todos, id)] = Len(heap) + 1]
            /\ held' = HeldObject("update", Len(heap) + 1)
       ELSE /\ UNCHANGED <<heap, refs>>
            /\ held' = NoHold
    /\ AliasFrame

\* delete: the Map drops its reference
AliasDelete(id) ==
    /\ Delete(id)
    /\ refs' = [j \in 1..Len(todos') |-> AddressOf(todos'[j].key)]
    /\ held' = NoHold
    /\ UNCHANGED heap
    /\ AliasFrame

\* clear: the Map drops every reference
AliasClear ==
    /\ Clear
    /\ refs' = <<>>
    /\ held' = NoHold
    /\ UNCHANGED heap
    /\ AliasFrame

\* the caller assigns a property of the object it holds
HeldSetTitle(title) ==
    /\ held.kind = "object"
    /\ heap' = [heap EXCEPT ![held.addr] = Spread(@, [title |-> title])]
    /\ todos' = ViewOf(heap')
    /\ held' = [held EXCEPT !.last = "setField"]
    /\ UNCHANGED <<refs, currentId, clock, call, ret, issued>>
    /\ AliasFrame

\* the caller assigns a property of an element of the array it holds
HeldElementSetTitle(i, title) ==
    /\ held.kind = "list"
    /\ i \in 1..Len(held.addrs)
    /\ heap' = [heap EXCEPT ![held.addrs[i]] = Spread(@, [title |-> title])]
    /\ todos' = ViewOf(heap')
    /\ held' = [held EXCEPT !.last = "setElementField"]
    /\ UNCHANGED <<refs, currentId, clock, call, ret, issued>>
    /\ AliasFrame

\* the caller pushes an element it holds onto the array once more
HeldPush ==
    /\ held.kind = "list"
    /\ Len(held.addrs) \in 1..(MaxHeldLength - 1)
    /\ held' = [held EXCEPT !.addrs = Append(@, @[1]), !.last = "push"]
    /\ UNCHANGED <<heap, refs, repoVars>>
    /\ AliasFrame

\* the caller pops the last element off the array it holds
HeldPop ==
    /\ held.kind = "list"
    /\ Len(held.addrs) > 0
    /\ held' = [held EXCEPT !.addrs = SubSeq(@, 1, Len(@) - 1), !.last = "pop"]
    /\ UNCHANGED <<heap, refs, repoVars>>
    /\ AliasFrame

\* The runs of a caller that keeps and changes what the methods return, from
\* the clock's last reading
AliasInit == InitAt(MaxClock)

AliasNext ==
    \/ \E input \in TodoInputs : AliasCreate(input, MaxCreates)
    \/ \E id \in IdInputs : AliasFindById(id)
    \/ \E filter \in {Undefined, [completed |-> TRUE]} : AliasFindAll(filter)
    \/ \E id \in IdInputs : AliasUpdate(id, [completed |-> TRUE])
    \/ \E id \in IdInputs : AliasDelete(id)
    \/ AliasClear
    \/ HeldSetTitle("z")
    \/ \E i \in 1..MaxHeldLength : HeldElementSetTitle(i, "z")
    \/ HeldPush
    \/ HeldPop

AliasSpec == AliasInit /\ [][AliasNext]_vars

----------------------------------------------------------------------------
(* class ApiClient: one client and the request it has in progress. api.pc is
   where the request is: "idle" before the constructor, "ready" with no call
   made, "fetching" at await fetch, "parsing" at await response.json(),
   "settled" when the promise of the call is resolved or rejected. *)

\* options.timeout || 30000
DefaultTimeout == 30000

\* the strings that parse as absolute URLs
AbsoluteUrls == {"https://api.example.com", "https://h.example/users"}

BaseURLs == {"https://api.example.com", "not a url"}

Endpoints == {"/users", "https://h.example/users"}

\* params?: Record<string, string>, as the sequence of its entries
ParamSets == {Absent, Present(<<[key |-> "page", value |-> "1"]>>)}

\* a body that JSON.stringify cannot serialise
Circular == [circular |-> TRUE]

Bodies == {Undefined, [name |-> "n"], Circular}

ApiClientOptions ==
    {[baseURL |-> b] : b \in BaseURLs} \cup
    {[baseURL |-> b, timeout |-> t] : b \in BaseURLs, t \in {0, 5}}

\* url.searchParams.append(key, value) for each entry, as the search string
RECURSIVE SearchOf(_)
SearchOf(params) ==
    IF params = <<>> THEN ""
    ELSE (IF Len(params) = 1 THEN "?" ELSE SearchOf(SubSeq(params, 1, Len(params) - 1)) \o "&")
         \o params[Len(params)].key \o "=" \o params[Len(params)].value

\* buildUrl: new URL(endpoint, baseURL) throws when neither is absolute
BuildUrl(baseURL, endpoint, params) ==
    IF endpoint \notin AbsoluteUrls /\ baseURL \notin AbsoluteUrls
    THEN [throws |-> "Invalid URL"]
    ELSE [href |-> (IF endpoint \in AbsoluteUrls THEN endpoint ELSE baseURL \o endpoint)
                   \o (IF params = Absent THEN "" ELSE SearchOf(params[2]))]

\* ApiResponse<T>
Success(data) == [success |-> TRUE, data |-> data]

Failure(code, message) == [success |-> FALSE, error |-> [code |-> code, message |-> message]]

Fulfilled(value) == [state |-> "fulfilled", value |-> value]

Rejected(reason) == [state |-> "rejected", reason |-> reason]

Pending == [state |-> "pending"]

\* response.statusText
StatusText(status) ==
    CASE status = 200 -> "OK"
      [] status = 404 -> "Not Found"
      [] status = 500 -> "Internal Server Error"

\* what a step of the client leaves alone
ApiFrame == UNCHANGED <<repoVars, svc, secondVars, aliasVars, exampleVars>>

\* constructor
ApiNew(options) ==
    /\ api.pc = "idle"
    /\ api' = [pc |-> "ready", baseURL |-> options.baseURL,
               timeout |-> IF "timeout" \in DOMAIN options /\ options.timeout # 0
                           THEN options.timeout ELSE DefaultTimeout]
    /\ ApiFrame

\* request, from the call to its first await or to its return
ApiStart(entry, endpoint, config) ==
    /\ api.pc \in {"ready", "settled"}
    /\ LET url == BuildUrl(api.baseURL, endpoint,
                           IF "params" \in DOMAIN config THEN Present(config.params) ELSE Absent)
           body == IF "body" \in DOMAIN config THEN config.body ELSE Undefined
           started == [baseURL |-> api.baseURL, timeout |-> api.timeout,
                       entry |-> entry, method |-> config.method]
       IN  api' = IF "throws" \in DOMAIN url
                  THEN started @@ [pc |-> "settled", timer |-> "none",
                                   outcome |-> Rejected(url.throws)]
                  ELSE IF body = Circular
                  THEN started @@ [pc |-> "settled", timer |-> "pending", url |-> url.href,
                                   outcome |-> Fulfilled(Failure("NETWORK_ERROR", "Converting circular structure to JSON"))]
                  ELSE started @@ [pc |-> "fetching", timer |-> "pending", url |-> url.href,
                                   outcome |-> Pending]

ApiRequest(endpoint, config) ==
    /\ ApiStart("request", endpoint, config)
    /\ ApiFrame

ApiGet(endpoint, params) ==
    /\ ApiStart("get", endpoint, [method |-> "GET"] @@ OptField("params", params))
    /\ ApiFrame

ApiPost(endpoint, body) ==
    /\ ApiStart("post", endpoint, [method |-> "POST", body |-> body])
    /\ ApiFrame

ApiPut(endpoint, body) ==
    /\ ApiStart("put", endpoint, [method |-> "PUT", body |-> body])
    /\ ApiFrame

ApiPatch(endpoint, body) ==
    /\ ApiStart("patch", endpoint, [method |-> "PATCH", body |-> body])
    /\ ApiFrame

ApiDelete(endpoint) ==
    /\ ApiStart("delete", endpoint, [method |-> "DELETE"])
    /\ ApiFrame

\* the timer's callback: controller.abort()
TimerFires ==
    /\ api.pc \in {"fetching", "parsing", "settled"}
    /\ api.timer = "pending"
    /\ api' = [api EXCEPT !.timer = "fired"]
    /\ ApiFrame

\* fetch resolves with a response: clearTimeout, then the test of response.ok
FetchResolves(status) ==
    /\ api.pc = "fetching"
    /\ api.timer = "pending"
    /\ api' = IF status \in 200..299
              THEN [api EXCEPT !.pc = "parsing", !.timer = "cleared"]
              ELSE [api EXCEPT !.pc = "settled", !.timer = "cleared",
                               !.outcome = Fulfilled(Failure("HTTP_" \o ToString(status), StatusText(status)))]
    /\ ApiFrame

\* fetch rejects, with the abort when the timer has fired: the catch block
FetchRejects ==
    /\ api.pc = "fetching"
    /\ api' = [api EXCEPT !.pc = "settled",
                          !.outcome = Fulfilled(Failure("NETWORK_ERROR",
                              IF api.timer = "fired" THEN "This operation was aborted"
                              ELSE "Failed to fetch"))]
    /\ ApiFrame

\* response.json() resolves
JsonResolves(data) ==
    /\ api.pc = "parsing"
    /\ api' = [api EXCEPT !.pc = "settled", !.outcome = Fulfilled(Success(data))]
    /\ ApiFrame

\* response.json() rejects: the catch block
JsonRejects ==
    /\ api.pc = "parsing"
    /\ api' = [api EXCEPT !.pc = "settled",
                          !.outcome = Fulfilled(Failure("NETWORK_ERROR", "Unexpected end of JSON input"))]
    /\ ApiFrame

RequestConfigs ==
    {[method |-> m] : m \in {"GET", "DELETE"}} \cup
    {[method |-> "GET"] @@ OptField("params", p) : p \in ParamSets} \cup
    {[method |-> "POST", body |-> b] : b \in Bodies}

ApiNext ==
    \/ \E options \in ApiClientOptions : ApiNew(options)
    \/ \E endpoint \in Endpoints, config \in RequestConfigs : ApiRequest(endpoint, config)
    \/ \E endpoint \in Endpoints, params \in ParamSets : ApiGet(endpoint, params)
    \/ \E endpoint \in Endpoints, body \in Bodies : ApiPost(endpoint, body)
    \/ \E endpoint \in Endpoints, body \in Bodies : ApiPut(endpoint, body)
    \/ \E endpoint \in Endpoints, body \in Bodies : ApiPatch(endpoint, body)
    \/ \E endpoint \in Endpoints : ApiDelete(endpoint)
    \/ TimerFires
    \/ \E status \in {200, 404, 500} : FetchResolves(status)
    \/ FetchRejects
    \/ \E data \in {[id |-> 1], [users |-> <<>>]} : JsonResolves(data)
    \/ JsonRejects

ApiSpec == Init /\ [][ApiNext]_vars

----------------------------------------------------------------------------
(* class DatabaseConnection: the static field, the constructor's runs and the
   instances getInstance returned, in call order *)

\* new DatabaseConnection(): the n-th object the constructor initialised
NewDatabaseConnection(n) == [address |-> n, connectionString |-> "mongodb://localhost:27017"]

\* what a step on DatabaseConnection leaves alone
ConnectionFrame == UNCHANGED <<appVars, account, generic, retrying, memo, todoItems>>

\* getInstance without the test of the static field
GetInstanceAlwaysNew ==
    /\ Len(connection.returned) < MaxConnectionCalls
    /\ LET created == NewDatabaseConnection(connection.constructed + 1)
       IN  connection' = [connection EXCEPT !.instance = created,
                                           !.constructed = @ + 1,
                                           !.returned = Append(@, created)]
    /\ ConnectionFrame

\* static getInstance()
GetInstance ==
    /\ Len(connection.returned) < MaxConnectionCalls
    /\ IF connection.instance = Undefined
       THEN LET created == NewDatabaseConnection(connection.constructed + 1)
            IN  connection' = [connection EXCEPT !.instance = created,
                                                !.constructed = @ + 1,
                                                !.returned = Append(@, created)]
       ELSE connection' = [connection EXCEPT !.returned = Append(@, connection.instance)]
    /\ ConnectionFrame

\* connect(), on an instance getInstance returned: one line on the console
Connect ==
    /\ connection.returned # <<>>
    /\ Len(connection.log) < MaxConnectionCalls
    /\ connection' = [connection EXCEPT !.log =
           Append(@, "Connecting to " \o connection.returned[Len(connection.returned)].connectionString)]
    /\ ConnectionFrame

----------------------------------------------------------------------------
(* The type number: the finite values the model uses are integers; Infinity,
   -Infinity and NaN are values of the type too *)

Finite(n) == [finite |-> n]

Infinity == [infinite |-> 1]

NegInfinity == [infinite |-> -1]

NaN == [nan |-> TRUE]

IsFinite(x) == DOMAIN x = {"finite"}

\* a > b
NumGt(a, b) ==
    CASE a = NaN \/ b = NaN -> FALSE
      [] a = b -> FALSE
      [] a = Infinity \/ b = NegInfinity -> TRUE
      [] a = NegInfinity \/ b = Infinity -> FALSE
      [] OTHER -> a.finite > b.finite

\* a <= b
NumLe(a, b) == a # NaN /\ b # NaN /\ ~NumGt(a, b)

\* -a
NumNeg(a) ==
    CASE a = NaN -> NaN
      [] a = Infinity -> NegInfinity
      [] a = NegInfinity -> Infinity
      [] OTHER -> Finite(-a.finite)

\* a + b
NumAdd(a, b) ==
    CASE a = NaN \/ b = NaN -> NaN
      [] IsFinite(a) /\ IsFinite(b) -> Finite(a.finite + b.finite)
      [] IsFinite(a) -> b
      [] IsFinite(b) -> a
      [] a = b -> a
      [] OTHER -> NaN

\* a - b
NumSub(a, b) == NumAdd(a, NumNeg(b))

----------------------------------------------------------------------------
(* class BankAccount: one account, the last call on it and what it returned *)

AccountNumbers == {"ACC-1"}

\* the initial balances of the model: not negative
InitialBalances == {Finite(0), Finite(1)}

Amounts == {Finite(-1), Finite(0), Finite(1), Finite(2), Infinity, NaN}

\* what a step on the account leaves alone
AccountFrame == UNCHANGED <<appVars, connection, generic, retrying, memo, todoItems>>

\* constructor(accountNumber, initialBalance)
BankAccountNew(accountNumber, initialBalance) ==
    /\ account.pc = "none"
    /\ account' = [pc |-> "constructed", accountNumber |-> accountNumber,
                   balance |-> initialBalance, accountType |-> "Savings",
                   call |-> [op |-> "new", amount |-> initialBalance], ret |-> Undefined]
    /\ AccountFrame

\* deposit(amount)
Deposit(amount) ==
    /\ account.pc = "constructed"
    /\ LET sum == NumAdd(account.balance, amount)
       IN  /\ IsFinite(sum) => sum.finite <= MaxBalance
           /\ account' = [account EXCEPT
                  !.balance = IF NumGt(amount, Finite(0)) THEN sum ELSE @,
                  !.call = [op |-> "deposit", amount |-> amount],
                  !.ret = Undefined]
    /\ AccountFrame

\* withdraw(amount)
Withdraw(amount) ==
    /\ account.pc = "constructed"
    /\ LET allowed == NumGt(amount, Finite(0)) /\ NumLe(amount, account.balance)
       IN  account' = [account EXCEPT
               !.balance = IF allowed THEN NumSub(@, amount) ELSE @,
               !.call = [op |-> "withdraw", amount |-> amount],
               !.ret = [boolean |-> allowed]]
    /\ AccountFrame

\* getBalance()
GetBalance ==
    /\ account.pc = "constructed"
    /\ account' = [account EXCEPT !.call = [op |-> "getBalance"], !.ret = account.balance]
    /\ AccountFrame

\* The classes of part_001 that hold state
ClassesNext ==
    \/ GetInstance
    \/ Connect
    \/ \E accountNumber \in AccountNumbers, initialBalance \in InitialBalances :
          BankAccountNew(accountNumber, initialBalance)
    \/ \E amount \in Amounts : Deposit(amount)
    \/ \E amount \in Amounts : Withdraw(amount)
    \/ GetBalance

ClassesSpec == Init /\ [][ClassesNext]_vars

----------------------------------------------------------------------------
(* retry(times): one method wrapped by the decorator, and one call of the
   wrapper at a time. retrying.pc is "idle" before the decorator is applied,
   "ready" with no call in progress, "attempting" at the await of the
   original method, "settled" when the wrapper's promise is settled.
   invoked counts the calls of the original method, attempts lists how the
   finished ones ended. *)

\* the errors the original method throws
AttemptErrors == {"Network error", "Timed out"}

\* the values the original method returns
AttemptResults == {[data |-> "success"]}

Urls == {"/api/data", "/api/users"}

\* what a step of the wrapper leaves alone
RetryFrame == UNCHANGED <<appVars, connection, account, generic, memo, todoItems>>

\* @retry(times)
RetryDecorate(times) ==
    /\ retrying.pc = "idle"
    /\ retrying' = [pc |-> "ready", times |-> times]
    /\ RetryFrame

\* a call of the wrapper, to the first await or to the throw of line 208
RetryCall(args) ==
    /\ retrying.pc \in {"ready", "settled"}
    /\ retrying' =
          [times |-> retrying.times, args |-> args, i |-> 0, attempts |-> <<>>, log |-> <<>>,
           lastError |-> "Unknown error",
           pc |-> IF 0 < retrying.times THEN "attempting" ELSE "settled",
           invoked |-> IF 0 < retrying.times THEN 1 ELSE 0,
           outcome |-> IF 0 < retrying.times THEN Pending ELSE Rejected("Unknown error")]
    /\ RetryFrame

\* the original method returns, or its promise is fulfilled
AttemptSucceeds(result) ==
    /\ retrying.pc = "attempting"
    /\ retrying' = [retrying EXCEPT !.pc = "settled",
                                    !.attempts = Append(@, [ok |-> TRUE, value |-> result]),
                                    !.outcome = Fulfilled(result)]
    /\ RetryFrame

\* the catch block with the loop's test written i <= times
AttemptFailsOffByOne(error) ==
    /\ retrying.pc = "attempting"
    /\ LET again == retrying.i + 1 <= retrying.times
       IN  retrying' = [retrying EXCEPT
               !.lastError = error,
               !.attempts = Append(@, [ok |-> FALSE, error |-> error]),
               !.log = Append(@, "Attempt " \o ToString(retrying.i + 1) \o " failed. Retrying..."),
               !.i = @ + 1,
               !.invoked = IF again THEN @ + 1 ELSE @,
               !.pc = IF again THEN "attempting" ELSE "settled",
               !.outcome = IF again THEN Pending ELSE Rejected(error)]
    /\ RetryFrame

\* the original method throws, or its promise is rejected: the catch block,
\* i++, the loop's test, and the next call of the original or the throw
AttemptFails(error) ==
    /\ retrying.pc = "attempting"
    /\ LET again == retrying.i + 1 < retrying.times
       IN  retrying' = [retrying EXCEPT
               !.lastError = error,
               !.attempts = Append(@, [ok |-> FALSE, error |-> error]),
               !.log = Append(@, "Attempt " \o ToString(retrying.i + 1) \o " failed. Retrying..."),
               !.i = @ + 1,
               !.invoked = IF again THEN @ + 1 ELSE @,
               !.pc = IF again THEN "attempting" ELSE "settled",
               !.outcome = IF again THEN Pending ELSE Rejected(error)]
    /\ RetryFrame

RetryNext ==
    \/ \E times \in 0..MaxTimes : RetryDecorate(times)
    \/ \E url \in Urls : RetryCall(<<url>>)
    \/ \E result \in AttemptResults : AttemptSucceeds(result)
    \/ \E error \in AttemptErrors : AttemptFails(error)

RetrySpec == Init /\ [][RetryNext]_vars

----------------------------------------------------------------------------
(* memoize, applied to Calculator.fibonacci. The cache belongs to the
   decorated method, so every instance of the class shares it. memo.stack is
   the stack of the calls of the wrapper in progress: a frame is at "enter"
   when the wrapper has just been called, at "first" while the original
   method waits for this.fibonacci(n - 1), at "second" while it waits for
   this.fibonacci(n - 2). memo.returned is the value the call that has just
   finished hands to its caller. invoked and completed list the keys for
   which the original method was entered and has returned. measure, applied
   on top, passes arguments and result through. *)

Calculators == {"calculator1", "calculator2"}

\* JSON.stringify(args) for the argument list [n]
StringifyArgs(n) == "[" \o ToString(n) \o "]"

Frame(this, n) == [this |-> this, n |-> n, pc |-> "enter", first |-> 0]

Top == memo.stack[Len(memo.stack)]

Pop == SubSeq(memo.stack, 1, Len(memo.stack) - 1)

\* what a step of the memoized method leaves alone
MemoFrame == UNCHANGED <<appVars, connection, account, generic, retrying, todoItems>>

\* calculator.fibonacci(n), called from outside
MemoCall(this, n) ==
    /\ memo.stack = <<>> /\ memo.returned = Absent
    /\ memo.calls < MaxMemoCalls
    /\ memo' = [memo EXCEPT !.stack = <<Frame(this, n)>>, !.calls = @ + 1,
                            !.call = [op |-> "fibonacci", this |-> this, n |-> n],
                            !.ret = Absent]
    /\ MemoFrame

\* the wrapper finds the key in the cache
MemoHit ==
    /\ memo.stack # <<>> /\ Top.pc = "enter"
    /\ MapHas(memo.cache, StringifyArgs(Top.n))
    /\ memo' = [memo EXCEPT !.stack = Pop,
                            !.returned = Present(MapGet(memo.cache, StringifyArgs(Top.n)))]
    /\ MemoFrame

\* the wrapper calls the original, which returns n: cache.set, return
MemoMissBase ==
    /\ memo.stack # <<>> /\ Top.pc = "enter"
    /\ ~MapHas(memo.cache, StringifyArgs(Top.n))
    /\ Top.n <= 1
    /\ memo' = [memo EXCEPT !.stack = Pop,
                            !.invoked = Append(@, StringifyArgs(Top.n)),
                            !.completed = Append(@, [key |-> StringifyArgs(Top.n), value |-> Top.n]),
                            !.cache = MapSet(@, StringifyArgs(Top.n), Top.n),
                            !.returned = Present(Top.n)]
    /\ MemoFrame

\* the wrapper calls the original, which calls this.fibonacci(n - 1)
MemoMissRecurse ==
    /\ memo.stack # <<>> /\ Top.pc = "enter"
    /\ ~MapHas(memo.cache, StringifyArgs(Top.n))
    /\ Top.n > 1
    /\ memo' = [memo EXCEPT !.stack = Append([memo.stack EXCEPT ![Len(memo.stack)].pc = "first"],
                                             Frame(Top.this, Top.n - 1)),
                            !.invoked = Append(@, StringifyArgs(Top.n))]
    /\ MemoFrame

\* this.fibonacci(n - 1) has returned: the original calls this.fibonacci(n - 2)
MemoFirstReturns ==
    /\ memo.stack # <<>> /\ Top.pc = "first"
    /\ memo.returned # Absent
    /\ memo' = [memo EXCEPT !.stack = Append([memo.stack EXCEPT ![Len(memo.stack)].pc = "second",
                                                                ![Len(memo.stack)].first = memo.returned[2]],
                                             Frame(Top.this, Top.n - 2)),
                            !.returned = Absent]
    /\ MemoFrame

\* the original returns the sum, and the wrapper returns it without cache.set
MemoSecondReturnsUncached ==
    /\ memo.stack # <<>> /\ Top.pc = "second"
    /\ memo.returned # Absent
    /\ LET result == Top.first + memo.returned[2]
       IN  memo' = [memo EXCEPT !.stack = Pop,
                               !.completed = Append(@, [key |-> StringifyArgs(Top.n), value |-> result]),
                               !.returned = Present(result)]
    /\ MemoFrame

\* this.fibonacci(n - 2) has returned: the original returns the sum, and the
\* wrapper does cache.set and returns it
MemoSecondReturns ==
    /\ memo.stack # <<>> /\ Top.pc = "second"
    /\ memo.returned # Absent
    /\ LET result == Top.first + memo.returned[2]
       IN  memo' = [memo EXCEPT !.stack = Pop,
                               !.completed = Append(@, [key |-> StringifyArgs(Top.n), value |-> result]),
                               !.cache = MapSet(@, StringifyArgs(Top.n), result),
                               !.returned = Present(result)]
    /\ MemoFrame

\* the call from outside returns
MemoCallReturns ==
    /\ memo.stack = <<>> /\ memo.returned # Absent
    /\ memo' = [memo EXCEPT !.ret = memo.returned, !.returned = Absent]
    /\ MemoFrame

MemoNext ==
    \/ \E this \in Calculators, n \in -1..MaxArgument : MemoCall(this, n)
    \/ MemoHit
    \/ MemoMissBase
    \/ MemoMissRecurse
    \/ MemoFirstReturns
    \/ MemoSecondReturns
    \/ MemoCallReturns

MemoSpec == Init /\ [][MemoNext]_vars

----------------------------------------------------------------------------
(* class GenericRepository<T extends { id: number }>, with T = Product: the
   Map items, the last call and what it returned *)

\* the Product values passed to add
Products == {[id |-> i, name |-> n] : i \in {1, 2}, n \in {"a"}}

\* the Partial<Product> values passed to update
ProductPatches == {[name |-> "b"], [id |-> 2], [id |-> 2, name |-> "b"]}

ProductIds == {1, 2}

\* what a step on the repository leaves alone
GenericFrame == UNCHANGED <<appVars, connection, account, retrying, memo, todoItems>>

\* add(item)
GenericAdd(item) ==
    /\ generic' = [items |-> MapSet(generic.items, item.id, item),
                   call |-> [op |-> "add", item |-> item],
                   ret |-> Undefined]
    /\ GenericFrame

\* get(id)
GenericGet(id) ==
    /\ generic' = [generic EXCEPT !.call = [op |-> "get", id |-> id],
                                  !.ret = MapGet(generic.items, id)]
    /\ GenericFrame

\* getAll()
GenericGetAll ==
    /\ generic' = [generic EXCEPT !.call = [op |-> "getAll"],
                                  !.ret = [values |-> MapValues(generic.items)]]
    /\ GenericFrame

\* delete(id)
GenericDelete(id) ==
    /\ generic' = [items |-> MapDelete(generic.items, id).map,
                   call |-> [op |-> "delete", id |-> id],
                   ret |-> [boolean |-> MapDelete(generic.items, id).result]]
    /\ GenericFrame

\* update(id, item)
GenericUpdate(id, item) ==
    /\ LET existing == MapGet(generic.items, id)
           updated == Spread(existing, item)
       IN  generic' = IF MapHas(generic.items, id)
                      THEN [items |-> MapSet(generic.items, id, updated),
                            call |-> [op |-> "update", id |-> id, item |-> item],
                            ret |-> updated]
                      ELSE [generic EXCEPT !.call = [op |-> "update", id |-> id, item |-> item],
                                           !.ret = Undefined]
    /\ GenericFrame

GenericNext ==
    \/ \E item \in Products : GenericAdd(item)
    \/ \E id \in ProductIds : GenericGet(id)
    \/ GenericGetAll
    \/ \E id \in ProductIds : GenericDelete(id)
    \/ \E id \in ProductIds, item \in ProductPatches : GenericUpdate(id, item)

GenericSpec == Init /\ [][GenericNext]_vars

----------------------------------------------------------------------------
(* ch3/app.ts: the array todoItems, addTodoItem and getNextId *)

Titles == {"Buy lots of stuff with all the money we make from the app", "Learn React", "Rest"}

\* items.reduce((max, x) => x.id > max ? x.id : max, max)
RECURSIVE ReduceMax(_, _)
ReduceMax(items, max) ==
    IF items = <<>> THEN max
    ELSE ReduceMax(Tail(items), IF Head(items).id > max THEN Head(items).id ELSE max)

\* getNextId without the + 1
GetNextIdWithoutIncrement(items) == ReduceMax(items, 0)

\* getNextId(items)
GetNextId(items) == ReduceMax(items, 0) + 1

\* what a step on todoItems leaves alone
TodoItemsFrame == UNCHANGED <<appVars, connection, account, generic, retrying, memo>>

\* addTodoItem(todo)
AddTodoItem(todo) ==
    /\ Len(todoItems) < Len(InitialTodoItems) + MaxAdds
    /\ LET id == GetNextId(todoItems)
           newTodo == [id |-> id, title |-> todo, status |-> Progress.Todo]
       IN  todoItems' = Append(todoItems, newTodo)
    /\ TodoItemsFrame

TodoItemsNext == \E todo \in Titles : AddTodoItem(todo)

TodoItemsSpec == Init /\ [][TodoItemsNext]_vars

----------------------------------------------------------------------------
(* Properties of TodoRepository *)

\* C1: over any sequence of create, update, delete and clear calls, no two
\* create calls return the same identifier.
C1_IdentifiersUnique ==
    /\ \A i, j \in 1..Len(issued) : i # j => issued[i] # issued[j]
    /\ call.op = "create" => ret.id = issued[Len(issued)]

\* two creates with the first record removed in between
C1_Witness ==
    /\ call.op = "create"
    /\ Len(issued) = 2
    /\ MapKeys(todos) = {ret.id}

\* C2: update(id, patch) of a stored record leaves under id a record whose
\* properties are those of the record before, overridden by those of the
\* patch, and whose updatedAt is not before the one it had.
C2_UpdateMerges ==
    [][ (call'.op = "update" /\ MapHas(todos, call'.id)) =>
          LET old == MapGet(todos, call'.id)
              new == MapGet(todos', call'.id)
              patch == call'.update
          IN  /\ ret' = new
              /\ DOMAIN new = DOMAIN old \cup DOMAIN patch
              /\ \A k \in DOMAIN new \ {"updatedAt"} :
                    new[k] = IF k \in DOMAIN patch THEN patch[k] ELSE old[k]
              /\ new.updatedAt >= old.updatedAt ]_vars

\* an update that overrode one property, added another and came later
C2_Witness ==
    /\ call.op = "update"
    /\ ret # Undefined
    /\ call.update = [title |-> "b", tags |-> <<"y">>]
    /\ MapGet(todos, call.id) = ret
    /\ ret.title = "b" /\ ret.tags = <<"y">> /\ ret.completed = TRUE
    /\ ret.updatedAt > ret.createdAt

\* C3: update(id, patch) with an id that is not stored returns undefined and
\* changes neither the collection, nor any record, nor the counter.
C3_UpdateMissingNoEffect ==
    [][ (call'.op = "update" /\ ~MapHas(todos, call'.id)) =>
          /\ ret' = Undefined
          /\ todos' = todos
          /\ currentId' = currentId ]_vars

\* an update of an id that is not stored, while another record is
C3_Witness ==
    /\ call.op = "update"
    /\ ret = Undefined
    /\ Len(todos) > 0
    /\ DOMAIN call.update # {}

\* C4: after delete(id), findById(id) yields undefined, it keeps yielding
\* undefined as long as create is not called, and a delete(id) called while
\* it does returns false; for every id, stored before the first delete or not.
C4_DeleteThenAbsent ==
    [][ \A id \in IdInputs :
          /\ (call'.op = "delete" /\ call'.id = id) => MapGet(todos', id) = Undefined
          /\ (MapGet(todos, id) = Undefined /\ call'.op # "create") =>
                MapGet(todos', id) = Undefined
          /\ (call'.op = "delete" /\ call'.id = id /\ MapGet(todos, id) = Undefined) =>
                ret' = FALSE ]_vars

\* a delete that returned false for an identifier create had returned
C4_Witness ==
    /\ call.op = "delete"
    /\ ret = FALSE
    /\ \E i \in 1..Len(issued) : issued[i] = call.id
    /\ Len(todos) > 0

\* C5: delete(id) returns true exactly when a record was stored under id,
\* removes that record only, and leaves every other record, their order and
\* the counter as they were.
C5_DeleteFrame ==
    [][ call'.op = "delete" =>
          LET id == call'.id IN
          /\ ret' = (\E i \in 1..Len(todos) : todos[i].key = id)
          /\ \A j \in 1..Len(todos') : todos'[j].key # id
          /\ \A i \in 1..Len(todos) :
                todos[i].key # id => \E j \in 1..Len(todos') : todos'[j] = todos[i]
          /\ \A j \in 1..Len(todos') : \E i \in 1..Len(todos) : todos[i] = todos'[j]
          /\ \A j1, j2 \in 1..Len(todos') :
                j1 < j2 => MapIndex(todos, todos'[j1].key) < MapIndex(todos, todos'[j2].key)
          /\ currentId' = currentId ]_vars

\* a delete that removed the first of three records
C5_Witness ==
    /\ call.op = "delete"
    /\ ret = TRUE
    /\ call.id = "todo-1"
    /\ MapKeys(todos) = {"todo-2", "todo-3"}

\* C6: after clear(), findAll returns the empty sequence for every filter and
\* findById returns undefined for every id, the counter is the one before,
\* and a create returns an identifier no create returned before.
C6_ClearKeepsCounter ==
    [][ /\ call'.op = "clear" =>
             /\ \A filter \in FilterTodoFilters : FindAllIn(todos', filter) = <<>>
             /\ \A id \in IdInputs : MapGet(todos', id) = Undefined
             /\ currentId' = currentId
        /\ call'.op = "create" =>
             /\ \A i \in 1..Len(issued) : issued[i] # ret'.id
             /\ MapGet(todos', ret'.id) = ret' ]_vars

\* a clear() of a repository that held a record and can still create
C6_Witness ==
    /\ call.op = "clear"
    /\ Len(issued) = 1
    /\ currentId = 1
    /\ todos = <<>>

\* the elements of a sequence
Range(seq) == {seq[i] : i \in 1..Len(seq)}

\* the place of an identifier among those create returned, in call order
CreationIndex(id) == CHOOSE i \in 1..Len(issued) : issued[i] = id

\* the stored records
Stored == {todos[i].value : i \in 1..Len(todos)}

\* C7: findAll({completed: flag}) returns exactly the stored records whose
\* completed flag is flag, each once, in the order of their creation.
C7_CompletedFilterExact ==
    \A flag \in BOOLEAN :
        (call.op = "findAll" /\ call.filter = [completed |-> flag]) =>
            /\ \A i \in 1..Len(ret) : ret[i] \in Stored /\ ret[i].completed = flag
            /\ \A todo \in Stored :
                  todo.completed = flag =>
                      Cardinality({i \in 1..Len(ret) : ret[i] = todo}) = 1
            /\ \A i, j \in 1..Len(ret) :
                  i < j => CreationIndex(ret[i].id) < CreationIndex(ret[j].id)

\* getCompletedTodos() over three records, where the first and the third are
\* completed and the first was completed by an update
C7_Witness ==
    /\ call.op = "findAll"
    /\ call.filter = [completed |-> TRUE]
    /\ Len(todos) = 3
    /\ Len(ret) = 2
    /\ ret[1].id = "todo-1" /\ ret[2].id = "todo-3"

\* C8: findAll with a filter of one tag x returns only stored records whose
\* tags contain x; a record without tags and a record with an empty tag
\* sequence are in no such result.
C8_TagFilterOnlyTagged ==
    (/\ call.op = "findAll"
     /\ call.filter # Undefined
     /\ "tags" \in DOMAIN call.filter
     /\ Len(call.filter.tags) = 1) =>
        /\ \A i \in 1..Len(ret) :
              /\ ret[i] \in Stored
              /\ "tags" \in DOMAIN ret[i]
              /\ call.filter.tags[1] \in Range(ret[i].tags)
        /\ \A todo \in Stored :
              ("tags" \notin DOMAIN todo \/ todo.tags = <<>>) => todo \notin Range(ret)

\* searchByTag("x") that found one record and left out one without tags
C8_Witness ==
    /\ call.op = "findAll"
    /\ call.filter = [tags |-> <<"x">>]
    /\ Len(ret) = 1
    /\ \E todo \in Stored : "tags" \notin DOMAIN todo

\* a record of a result shares a tag with the filter
SharesTag(todo, filter) ==
    /\ "tags" \in DOMAIN todo
    /\ Range(todo.tags) \cap Range(filter.tags) # {}

\* C9, as claimed: whenever the filter carries a tags sequence, of any length,
\* every record of the result shares a tag with it.
C9_Original ==
    (/\ call.op = "findAll"
     /\ call.filter # Undefined
     /\ "tags" \in DOMAIN call.filter) =>
        \A i \in 1..Len(ret) : SharesTag(ret[i], call.filter)

\* C9, amended: whenever the filter carries a tags sequence that is not
\* empty, every record of the result shares a tag with it.
C9_TagFilterShares ==
    (/\ call.op = "findAll"
     /\ call.filter # Undefined
     /\ "tags" \in DOMAIN call.filter
     /\ Len(call.filter.tags) > 0) =>
        \A i \in 1..Len(ret) : SharesTag(ret[i], call.filter)

\* a filter of two tags that found a record by the second of them, and left
\* out another record
C9_Witness ==
    /\ call.op = "findAll"
    /\ call.filter = [tags |-> <<"z", "y">>]
    /\ Len(ret) = 1
    /\ Len(todos) = 2

\* the record satisfies every property the filter specifies
Matches(todo, filter) ==
    /\ "completed" \in DOMAIN filter => todo.completed = filter.completed
    /\ "priority" \in DOMAIN filter => todo.priority = filter.priority
    /\ "tags" \in DOMAIN filter => SharesTag(todo, filter)

\* C10: for a filter of any combination of completed, priority and a tags
\* sequence that is not empty, findAll returns exactly the stored records
\* that satisfy every property the filter specifies.
C10_FilterConjunction ==
    (/\ call.op = "findAll"
     /\ call.filter # Undefined
     /\ "tags" \in DOMAIN call.filter => Len(call.filter.tags) > 0) =>
        /\ Range(ret) = {todo \in Stored : Matches(todo, call.filter)}
        /\ Len(ret) = Cardinality(Range(ret))

\* a filter of all three properties that found one of two records, the other
\* failing one property only
C10_Witness ==
    /\ call.op = "findAll"
    /\ call.filter = [completed |-> TRUE, priority |-> "HIGH", tags |-> <<"x">>]
    /\ Len(ret) = 1
    /\ \E todo \in Stored :
          /\ todo.completed = FALSE
          /\ todo.priority = "HIGH"
          /\ SharesTag(todo, call.filter)

\* C13: every stored record has updatedAt >= createdAt (the clock's readings
\* never decrease).
C13_UpdatedNotBeforeCreated ==
    \A i \in 1..Len(todos) : todos[i].value.updatedAt >= todos[i].value.createdAt

\* a record created while the clock advanced between the two readings, with
\* another that was updated later than it was created
C13_Witness ==
    /\ Len(todos) = 2
    /\ todos[1].value.createdAt = 0 /\ todos[1].value.updatedAt = 1
    /\ todos[1].value.completed = FALSE
    /\ todos[2].value.createdAt = 1 /\ todos[2].value.updatedAt = 1

\* C14: update never changes a record's id or createdAt: the record stored
\* after update(id, patch) has the id it had, which is the key it is stored
\* under, and the createdAt it had.
C14_UpdateKeepsIdAndCreatedAt ==
    [][ (call'.op = "update" /\ MapHas(todos, call'.id)) =>
          LET old == MapGet(todos, call'.id)
              new == MapGet(todos', call'.id)
          IN  /\ new.id = old.id
              /\ new.id = call'.id
              /\ new.createdAt = old.createdAt
              /\ \A i \in 1..Len(todos') : todos'[i].value.id = todos'[i].key ]_vars

\* an update at a later reading of the clock than the creation
C14_Witness ==
    /\ call.op = "update"
    /\ ret # Undefined
    /\ call.update = [completed |-> TRUE]
    /\ ret.id = call.id
    /\ ret.createdAt = 0
    /\ ret.updatedAt = 1

\* C15: findAll without a filter returns every stored record exactly once,
\* in the order of creation, whatever updates and deletes came before.
C15_FindAllInsertionOrder ==
    (call.op = "findAll" /\ call.filter = Undefined) =>
        /\ Range(ret) = Stored
        /\ Len(ret) = Cardinality(Stored)
        /\ \A i, j \in 1..Len(ret) :
              i < j => CreationIndex(ret[i].id) < CreationIndex(ret[j].id)

\* findAll() over the first and the third record, the first updated after
\* the third was created and the second deleted
C15_Witness ==
    /\ call.op = "findAll"
    /\ call.filter = Undefined
    /\ Len(ret) = 2
    /\ ret[1].id = "todo-1" /\ ret[2].id = "todo-3"
    /\ ret[1].completed = TRUE /\ ret[2].completed = TRUE

\* C19, as claimed: right after create, the new record's createdAt and
\* updatedAt are equal.
C19_TimestampsEqual ==
    call.op = "create" => ret.createdAt = ret.updatedAt

----------------------------------------------------------------------------
(* Properties of TodoService *)

\* the call on the repository that a call on the service stands for
Counterpart(s) ==
    CASE s.op = "createTodo" -> [op |-> "create", input |-> s.args[1]]
      [] s.op = "getTodo" -> [op |-> "findById", id |-> s.args[1]]
      [] s.op = "getAllTodos" -> [op |-> "findAll", filter |-> s.args[1]]
      [] s.op = "updateTodo" -> [op |-> "update", id |-> s.args[1], update |-> s.args[2]]
      [] s.op = "deleteTodo" -> [op |-> "delete", id |-> s.args[1]]
      [] s.op = "completeTodo" ->
            [op |-> "update", id |-> s.args[1], update |-> [completed |-> TRUE]]
      [] s.op = "incompleteTodo" ->
            [op |-> "update", id |-> s.args[1], update |-> [completed |-> FALSE]]
      [] s.op = "getCompletedTodos" -> [op |-> "findAll", filter |-> [completed |-> TRUE]]
      [] s.op = "getIncompleteTodos" -> [op |-> "findAll", filter |-> [completed |-> FALSE]]
      [] s.op = "getTodosByPriority" ->
            [op |-> "findAll", filter |-> [priority |-> s.args[1]]]
      [] s.op = "searchByTag" -> [op |-> "findAll", filter |-> [tags |-> <<s.args[1]>>]]
      [] s.op = "clearAllTodos" -> [op |-> "clear"]

\* the step is the given call on the repository
RepositoryDoes(c) ==
    CASE c.op = "create" -> Create(c.input, MaxCreates)
      [] c.op = "findById" -> FindById(c.id)
      [] c.op = "findAll" -> FindAll(c.filter)
      [] c.op = "update" -> Update(c.id, c.update)
      [] c.op = "delete" -> Delete(c.id)
      [] c.op = "clear" -> Clear

\* C16: every call on the service is its counterpart on the repository: from
\* the same state it leaves the state that call leaves and returns the value
\* that call returns, undefined and false for a missing id included.
C16_ServiceDelegates ==
    [][ svc'.op # "none" =>
          /\ RepositoryDoes(Counterpart(svc'))
          /\ svc'.ret = ret' ]_vars

\* incompleteTodo of a completed record, at a later reading of the clock
C16_Witness ==
    /\ svc.op = "incompleteTodo"
    /\ svc.ret # Undefined
    /\ svc.ret.completed = FALSE
    /\ svc.ret.updatedAt > svc.ret.createdAt
    /\ MapGet(todos, svc.args[1]) = svc.ret

\* the identifiers of the records of a list
IdsOf(list) == [i \in 1..Len(list) |-> list[i].id]

\* C17: completeTodo(id) of a stored record leaves it completed, with
\* updatedAt the reading of the clock at the call, out of getIncompleteTodos
\* and in getCompletedTodos, and leaves every other record as it was; a
\* completed record stays completed until updateTodo or incompleteTodo of it,
\* or its removal; with A and B incomplete, completeTodo(A) leaves
\* getIncompleteTodos() = [B], and with A and B stored, deleteTodo(B) returns
\* true and leaves getAllTodos() = [A].
C17_CompleteTodo ==
    [][ /\ (svc'.op = "completeTodo" /\ MapHas(todos, svc'.args[1])) =>
             LET id == svc'.args[1]
                 old == MapGet(todos, id)
                 new == MapGet(todos', id)
             IN  /\ new.completed = TRUE
                 /\ new.updatedAt = clock' /\ new.updatedAt >= old.updatedAt
                 /\ new \notin Range(FindAllIn(todos', [completed |-> FALSE]))
                 /\ new \in Range(FindAllIn(todos', [completed |-> TRUE]))
                 /\ MapKeys(todos') = MapKeys(todos)
                 /\ \A k \in MapKeys(todos) \ {id} : MapGet(todos', k) = MapGet(todos, k)
                 /\ IdsOf(FindAllIn(todos', [completed |-> FALSE]))
                       = SelectSeq(IdsOf(FindAllIn(todos, [completed |-> FALSE])),
                                   LAMBDA k : k # id)
        /\ \A id \in MapKeys(todos) \cap MapKeys(todos') :
             (MapGet(todos, id).completed /\ ~MapGet(todos', id).completed) =>
                 (svc'.op \in {"updateTodo", "incompleteTodo"} /\ svc'.args[1] = id)
        /\ (svc'.op = "deleteTodo" /\ MapHas(todos, svc'.args[1])) =>
             /\ svc'.ret = TRUE
             /\ IdsOf(FindAllIn(todos', Undefined))
                   = SelectSeq(IdsOf(FindAllIn(todos, Undefined)),
                               LAMBDA k : k # svc'.args[1]) ]_vars

\* the scenario: A and B created incomplete, completeTodo(A) at a later
\* reading of the clock, then deleteTodo(B), which leaves [A]
C17_Witness ==
    /\ svc.op = "deleteTodo"
    /\ svc.args = <<"todo-2">>
    /\ svc.ret = TRUE
    /\ issued = <<"todo-1", "todo-2">>
    /\ IdsOf(FindAllIn(todos, Undefined)) = <<"todo-1">>
    /\ todos[1].value.completed = TRUE
    /\ todos[1].value.updatedAt > todos[1].value.createdAt

\* the identifiers as the claim writes them
IdLiteral == <<"todo-1", "todo-2", "todo-3", "todo-4">>

\* C18: the k-th create of an instance returns "todo-k", whatever delete,
\* update and clear calls came in between, and each instance counts its own
\* creates.
C18_KthIdentifier ==
    /\ \A k \in 1..Len(issued) : issued[k] = IdLiteral[k]
    /\ \A k \in 1..Len(issued2) : issued2[k] = IdLiteral[k]
    /\ currentId = Len(issued)
    /\ currentId2 = Len(issued2)

\* the first create of the second instance, after two creates of the first
\* and the removal of one of its records
C18_Witness ==
    /\ call.op = "create" /\ "instance" \in DOMAIN call
    /\ issued = <<"todo-1", "todo-2">>
    /\ Len(todos) = 1
    /\ issued2 = <<"todo-1">>
    /\ ret.id = "todo-1"

\* what findById and findAll return, for every argument
Observable(m) ==
    [byId |-> [id \in IdInputs |-> MapGet(m, id)],
     all |-> [filter \in FilterTodoFilters |-> FindAllIn(m, filter)]]

\* C11, as claimed: changing a property of the object create returned does
\* not change what findById and findAll return.
C11_CreateReturnsCopy ==
    [][ (held.kind = "object" /\ held.from = "create" /\ held'.last = "setField") =>
          Observable(todos') = Observable(todos) ]_vars

\* C12, as claimed: adding to or removing from the array findAll returned,
\* or changing a property of one of its records, does not change what
\* findById and findAll return.
C12_FindAllResultDetached ==
    [][ (held.kind = "list" /\ held'.last \in {"push", "pop", "setElementField"}) =>
          Observable(todos') = Observable(todos) ]_vars

\* the two variants of ApiResponse
IsApiResponse(v) ==
    \/ DOMAIN v = {"success", "data"} /\ v.success = TRUE
    \/ /\ DOMAIN v = {"success", "error"} /\ v.success = FALSE
       /\ DOMAIN v.error = {"code", "message"}

\* C20, as claimed: every call of request, get, post, put, patch and delete
\* that has settled is resolved with one of the two variants, never rejected.
C20_AlwaysTwoVariantResult ==
    api.pc = "settled" =>
        /\ api.outcome.state = "fulfilled"
        /\ IsApiResponse(api.outcome.value)

\* C21: no instance exists before the first getInstance call; afterwards the
\* constructor has run exactly once and every call returned that instance.
C21_SingleLazyInstance ==
    /\ connection.returned = <<>> =>
          connection.instance = Undefined /\ connection.constructed = 0
    /\ connection.returned # <<>> =>
          /\ connection.constructed = 1
          /\ \A i \in 1..Len(connection.returned) :
                connection.returned[i] = connection.instance

C21_Witness ==
    /\ Len(connection.returned) = 2
    /\ connection.constructed = 1
    /\ connection.returned[1] = connection.returned[2]

\* C25, as claimed: the balance is never negative; withdraw(amount) returns
\* true and lowers the balance by amount when 0 < amount <= balance, and
\* otherwise returns false and changes nothing; deposit(amount) with
\* amount <= 0 changes nothing.
C25_BalanceNeverNegative ==
    [][ (AccountFrame /\ account'.pc = "constructed") =>
          /\ NumLe(Finite(0), account'.balance)
          /\ account'.call.op = "withdraw" =>
                IF NumGt(account'.call.amount, Finite(0)) /\ NumLe(account'.call.amount, account.balance)
                THEN account'.ret = [boolean |-> TRUE]
                     /\ account'.balance = NumSub(account.balance, account'.call.amount)
                ELSE account'.ret = [boolean |-> FALSE]
                     /\ account'.balance = account.balance
          /\ (account'.call.op = "deposit" /\ NumLe(account'.call.amount, Finite(0))) =>
                account'.balance = account.balance ]_vars

\* C22, as claimed: when the promise of request has resolved, the timer the
\* request started is no longer pending; and when the timer fires while
\* fetch is pending, the request resolves to the failure NETWORK_ERROR.
C22_TimerNotPendingOnceResolved ==
    [][ /\ (api'.pc = "settled" /\ api'.outcome.state = "fulfilled") =>
             api'.timer # "pending"
        /\ (api.pc = "fetching" /\ api'.pc = "settled" /\ api.timer = "fired") =>
             /\ api'.outcome.state = "fulfilled"
             /\ api'.outcome.value.success = FALSE
             /\ api'.outcome.value.error.code = "NETWORK_ERROR" ]_vars

\* C23: the original method is invoked at most times times; the wrapper
\* settles at the first attempt that succeeds, with that attempt's result;
\* when every attempt failed it is rejected with the last attempt's error,
\* and with 'Unknown error', the original never invoked, when times = 0.
C23_RetryAtMostTimes ==
    retrying.pc \in {"attempting", "settled"} =>
        LET n == Len(retrying.attempts) IN
        /\ retrying.invoked <= retrying.times
        /\ \A k \in 1..(n - 1) : ~retrying.attempts[k].ok
        /\ retrying.pc = "attempting" => retrying.invoked = n + 1
        /\ retrying.pc = "settled" =>
              /\ retrying.invoked = n
              /\ IF n > 0 /\ retrying.attempts[n].ok
                 THEN retrying.outcome = Fulfilled(retrying.attempts[n].value)
                 ELSE /\ n = retrying.times
                      /\ retrying.outcome =
                            Rejected(IF n = 0 THEN "Unknown error" ELSE retrying.attempts[n].error)

C23_Witness ==
    /\ retrying.pc = "settled"
    /\ retrying.times = 3
    /\ retrying.invoked = 3
    /\ retrying.outcome = Rejected("Timed out")
    /\ retrying.attempts[1].error = "Network error"

\* C24: the original method is entered, and so completes, at most once for
\* each key; the cache holds what those calls returned; and a call returns
\* the value the first completed call for its key returned.
C24_MemoizeOncePerKey ==
    /\ \A i, j \in 1..Len(memo.invoked) : memo.invoked[i] = memo.invoked[j] => i = j
    /\ \A i, j \in 1..Len(memo.completed) :
          memo.completed[i].key = memo.completed[j].key => i = j
    /\ memo.cache = memo.completed
    /\ memo.ret # Absent =>
          \E i \in 1..Len(memo.completed) :
             /\ memo.completed[i].key = StringifyArgs(memo.call.n)
             /\ Present(memo.completed[i].value) = memo.ret

C24_Witness ==
    /\ memo.calls = 2
    /\ memo.call = [op |-> "fibonacci", this |-> "calculator2", n |-> 3]
    /\ memo.ret = Present(2)
    /\ memo.invoked = <<"[3]", "[2]", "[1]", "[0]">>

\* C26, as claimed: every item in the Map has the id it is stored under, so
\* get(k) never returns an item whose id is not k, whatever the patch given
\* to update.
C26_ItemIdIsKey ==
    /\ \A i \in 1..Len(generic.items) : generic.items[i].value.id = generic.items[i].key
    /\ (generic.call.op = "get" /\ generic.ret # Undefined) => generic.ret.id = generic.call.id

\* the largest id in a list that is not empty
LargestId(items) ==
    CHOOSE m \in {items[i].id : i \in 1..Len(items)} :
        \A i \in 1..Len(items) : items[i].id <= m

\* C27: addTodoItem appends one item, whose id is one more than the largest
\* id in todoItems (1 for an empty list) and whose status is Todo; it leaves
\* the items before it as they were, and all ids stay pairwise distinct.
C27_AddTodoItemNextId ==
    [][ todoItems' # todoItems =>
          LET n == Len(todoItems) IN
          /\ Len(todoItems') = n + 1
          /\ SubSeq(todoItems', 1, n) = todoItems
          /\ todoItems'[n + 1].id = LargestId(todoItems) + 1
          /\ todoItems'[n + 1].status = "to-do"
          /\ GetNextId(<<>>) = 1
          /\ \A i, j \in 1..(n + 1) : todoItems'[i].id = todoItems'[j].id => i = j ]_vars

C27_Witness ==
    /\ Len(todoItems) = 5
    /\ todoItems[4].id = 4 /\ todoItems[5].id = 5
    /\ todoItems[5].status = "to-do"
    /\ todoItems[1] = InitialTodoItems[1]

====
